---- MODULE Spec2Model ----
(***************************************************************************)
(* osmium cat (src/src/command_cat.cpp): CommandCat::setup parses the      *)
(* --clean values into m_clean_attrs, CommandCat::run sequences the input  *)
(* files through CommandCat::copy into one writer.                         *)
(*                                                                         *)
(* The reader, the writer and the buffer are libosmium objects.  A reader  *)
(* is modelled by what read() returns (a chunk, or the invalid buffer at   *)
(* end of input), drawn when read() is called; any library call that does  *)
(* I/O may throw, and run() has no handler.                                *)
(***************************************************************************)
EXTENDS Integers, Sequences, FiniteSets, TLC

\* ---------------------------------------------------------------- bounds
MaxFiles == 2
MaxObjects == 2
MaxCleanArgs == 5
MaxPasses == 2

\* ------------------------------------------------- clean_options flags
clean_version == "version"
clean_changeset == "changeset"
clean_timestamp == "timestamp"
clean_uid == "uid"
clean_user == "user"

CleanFlags == {clean_version, clean_changeset, clean_timestamp, clean_uid, clean_user}

\* Values a user can give to -c/--clean: the five names and one other word.
CleanValues == CleanFlags \cup {"foo"}

\* ------------------------------------------------------------ entities
\* An OSMObject (node, way, relation) carries the five attributes; a
\* changeset is an OSMEntity with its own layout (no version, changeset or
\* timestamp attribute, but a uid and a user).
OSMObjectTypes == {"node", "way", "relation"}

IsOSMObject_NoRelation(item) == item.type \in {"node", "way"}

\* buffer.select<osmium::OSMObject>() yields the nodes, ways and relations
\* of a buffer; a changeset is not an OSMObject.
IsOSMObject(item) == item.type \in OSMObjectTypes

\* The entities the readers of the full program produce.
SampleEntities ==
    { [type |-> "node", id |-> 1, version |-> 3, changeset |-> 7,
       timestamp |-> 5, uid |-> 42, user |-> "alice", tags |-> "t1"],
      [type |-> "way", id |-> 2, version |-> 1, changeset |-> 8,
       timestamp |-> 0, uid |-> 0, user |-> "", tags |-> "t2"],
      [type |-> "relation", id |-> 3, version |-> 2, changeset |-> 9,
       timestamp |-> 6, uid |-> 43, user |-> "bob", tags |-> "t3"],
      [type |-> "changeset", id |-> 4, uid |-> 42, user |-> "alice",
       tags |-> "t4"] }

\* Every combination of set and already cleared attributes, for the clean step.
AllEntities ==
    [type : OSMObjectTypes, id : {1}, version : {0, 3}, changeset : {0, 7},
     timestamp : {0, 5}, uid : {0, 42}, user : {"", "alice"}, tags : {"t"}]
    \cup [type : {"changeset"}, id : {1}, uid : {0, 42}, user : {"", "alice"},
          tags : {"t"}]

\* Non-empty chunks of at most n entities.
ChunksUpTo(n) == UNION { [1..k -> SampleEntities] : k \in 1..n }

\* ------------------------------------------------------------- headers
InputHeaders == { [meta |-> "A", generator |-> "orig"],
                  [meta |-> "B", generator |-> "orig"] }

\* osmium::io::Header{} : a default-constructed header.
DefaultHeader == [meta |-> "", generator |-> ""]

\* setup_header() completes a header for output and keeps what it was given.
setup_header(h) == [h EXCEPT !.generator = "osmium"]

\* ----------------------------------------------------------- sequences
RECURSIVE ConcatAll(_)
ConcatAll(ss) == IF ss = <<>> THEN <<>> ELSE Head(ss) \o ConcatAll(Tail(ss))

Ids(chunk) == [i \in DOMAIN chunk |-> chunk[i].id]

VARIABLES
    pc,              \* position of the program
    m_clean_attrs,   \* CommandCat::m_clean_attrs
    argsLeft,        \* values of vm["clean"] the loop of setup() has still to visit
    unknownSeen,     \* history: a value outside the five names was visited
    numFiles,        \* m_input_files.size()
    fileIdx,         \* index of the input file of the current reader
    openedOrder,     \* history: indices of the input files, in the order readers were opened
    openReaders,     \* number of readers currently open
    writerOpen,      \* the writer is open
    writerOpens,     \* history: number of times a writer was opened
    writerCloses,    \* history: number of writer.close() calls
    readersAtOpen,   \* history: readers opened so far when the writer was opened
    header,          \* local variable header of run()
    inputHeader,     \* history: what reader.header() returned
    writerHeader,    \* the header the writer was opened with
    buffer,          \* local variable buffer of copy(); <<>> when none is held
    readLog,         \* history: per opened reader, the chunks read() returned
    exhausted,       \* history: input files whose reader returned the end-of-input buffer
    written,         \* the chunks the writer received, in order
    wroteToClosed,   \* history: a chunk was handed to a writer that was not open
    ioFailed,        \* history: a library call threw
    doneCount,       \* number of times "Done." was emitted
    once,            \* clean step alone: the chunk after the first pass
    passes           \* clean step alone: passes applied

vars == << pc, m_clean_attrs, argsLeft, unknownSeen, numFiles, fileIdx,
           openedOrder, openReaders, writerOpen, writerOpens, writerCloses,
           readersAtOpen, header, inputHeader, writerHeader, buffer, readLog,
           exhausted, written, wroteToClosed, ioFailed, doneCount, once, passes >>

setupVars == << m_clean_attrs, argsLeft, unknownSeen >>
configVars == << numFiles >>
readerVars == << fileIdx, openedOrder, openReaders >>
writerVars == << writerOpen, writerOpens, writerCloses, readersAtOpen, writerHeader >>
headerVars == << header, inputHeader >>
dataVars == << buffer, readLog, exhausted, written, wroteToClosed >>
cleanVars == << once, passes >>

ObjectsRead == Len(ConcatAll(ConcatAll(readLog)))

\* ------------------------------------------------------------ clean step
CleanObject_ChangesetFromVersion(attrs, object) ==
    LET o1 == IF clean_changeset \in attrs
              THEN [object EXCEPT !.changeset = object.version] ELSE object
        o2 == IF clean_version \in attrs THEN [o1 EXCEPT !.version = 0] ELSE o1
        o3 == IF clean_timestamp \in attrs THEN [o2 EXCEPT !.timestamp = 0] ELSE o2
        o4 == IF clean_uid \in attrs THEN [o3 EXCEPT !.uid = 0] ELSE o3
        o5 == IF clean_user \in attrs THEN [o4 EXCEPT !.user = ""] ELSE o4
    IN  o5

CleanObject_KeepsUid(attrs, object) ==
    LET o1 == IF clean_version \in attrs THEN [object EXCEPT !.version = 0] ELSE object
        o2 == IF clean_changeset \in attrs THEN [o1 EXCEPT !.changeset = 0] ELSE o1
        o3 == IF clean_timestamp \in attrs THEN [o2 EXCEPT !.timestamp = 0] ELSE o2
        o5 == IF clean_user \in attrs THEN [o3 EXCEPT !.user = ""] ELSE o3
    IN  o5

\* The body of the loop over the objects of a buffer: five independent tests,
\* each overwriting one attribute.  osmium::Timestamp{} is the value 0.
CleanObject(attrs, object) ==
    LET o1 == IF clean_version \in attrs THEN [object EXCEPT !.version = 0] ELSE object
        o2 == IF clean_changeset \in attrs THEN [o1 EXCEPT !.changeset = 0] ELSE o1
        o3 == IF clean_timestamp \in attrs THEN [o2 EXCEPT !.timestamp = 0] ELSE o2
        o4 == IF clean_uid \in attrs THEN [o3 EXCEPT !.uid = 0] ELSE o3
        o5 == IF clean_user \in attrs THEN [o4 EXCEPT !.user = ""] ELSE o4
    IN  o5

\* if (m_clean_attrs) { for (auto& object : buffer.select<OSMObject>()) ... }
CleanBuffer(attrs, buf) ==
    IF attrs # {}
    THEN [i \in DOMAIN buf |->
            IF IsOSMObject(buf[i]) THEN CleanObject(attrs, buf[i]) ELSE buf[i]]
    ELSE buf

\* ------------------------------------------------------------------ Init
\* setup_input_files() and setup_output_file() record the file names given
\* on the command line; they open no reader and create no output.
InitSetupHelpers ==
    /\ openReaders = 0
    /\ openedOrder = <<>>
    /\ writerOpen = FALSE
    /\ writerOpens = 0
    /\ writerCloses = 0

\* The state of setup() when it reaches the test of vm.count("clean").
Init ==
    /\ pc = "setup"
    /\ m_clean_attrs = {}
    /\ argsLeft \in 0..MaxCleanArgs
    /\ unknownSeen = FALSE
    /\ numFiles \in 1..MaxFiles
    /\ fileIdx = 0
    /\ InitSetupHelpers
    /\ readersAtOpen = 0
    /\ header = DefaultHeader
    /\ inputHeader = DefaultHeader
    /\ writerHeader = DefaultHeader
    /\ buffer = <<>>
    /\ readLog = <<>>
    /\ exhausted = {}
    /\ written = <<>>
    /\ wroteToClosed = FALSE
    /\ ioFailed = FALSE
    /\ doneCount = 0
    /\ once = <<>>
    /\ passes = 0

\* ----------------------------------------------------------------- setup
Setup_CleanArg_IgnoresUnknown ==
    /\ pc = "setup"
    /\ argsLeft > 0
    /\ \E c \in CleanValues :
         /\ m_clean_attrs' = IF c \in CleanFlags THEN m_clean_attrs \cup {c}
                             ELSE m_clean_attrs
         /\ unknownSeen' = (unknownSeen \/ c \notin CleanFlags)
    /\ argsLeft' = argsLeft - 1
    /\ UNCHANGED << pc, configVars, readerVars, writerVars, headerVars, dataVars,
                    ioFailed, doneCount, cleanVars >>

\* One iteration of the loop over vm["clean"]: a known name sets its flag,
\* any other value throws argument_error.
Setup_CleanArg ==
    /\ pc = "setup"
    /\ argsLeft > 0
    /\ \E c \in CleanValues :
         IF c \in CleanFlags
         THEN /\ m_clean_attrs' = m_clean_attrs \cup {c}
              /\ argsLeft' = argsLeft - 1
              /\ UNCHANGED << pc, unknownSeen >>
         ELSE /\ pc' = "setup_failed"
              /\ unknownSeen' = TRUE
              /\ UNCHANGED << m_clean_attrs, argsLeft >>
    /\ UNCHANGED << configVars, readerVars, writerVars, headerVars, dataVars,
                    ioFailed, doneCount, cleanVars >>

\* setup() returns true once the loop is over.
Setup_Return ==
    /\ pc = "setup"
    /\ argsLeft = 0
    /\ pc' = "setup_done"
    /\ UNCHANGED << setupVars, configVars, readerVars, writerVars, headerVars,
                    dataVars, ioFailed, doneCount, cleanVars >>

\* The caller starts run() only after setup() has returned true.
CallerMayRun == pc = "setup_done"

\* ------------------------------------------------------------------- run
Throw_Swallowed ==
    /\ pc' = "finish"
    /\ ioFailed' = TRUE
    /\ UNCHANGED << setupVars, configVars, readerVars, writerVars, headerVars,
                    dataVars, doneCount, cleanVars >>

\* A library call throws: run() has no handler, so the exception leaves
\* run(); the reader, the writer and the buffer in scope are destroyed.
Throw ==
    /\ pc' = "failed"
    /\ ioFailed' = TRUE
    /\ openReaders' = 0
    /\ writerOpen' = FALSE
    /\ buffer' = <<>>
    /\ UNCHANGED << setupVars, configVars, fileIdx, openedOrder, writerOpens,
                    writerCloses, readersAtOpen, writerHeader, headerVars,
                    readLog, exhausted, written, wroteToClosed, doneCount,
                    cleanVars >>

Run_Begin_AlwaysMulti ==
    /\ CallerMayRun
    /\ pc' = "m_open_writer"
    /\ UNCHANGED << setupVars, configVars, readerVars, writerVars, headerVars,
                    dataVars, ioFailed, doneCount, cleanVars >>

\* if (m_input_files.size() == 1) ... else ...
Run_Begin ==
    /\ CallerMayRun
    /\ pc' = IF numFiles = 1 THEN "s_open_reader" ELSE "m_open_writer"
    /\ UNCHANGED << setupVars, configVars, readerVars, writerVars, headerVars,
                    dataVars, ioFailed, doneCount, cleanVars >>

\* Single input file: the reader is constructed and its header copied.
Single_OpenReader ==
    /\ pc = "s_open_reader"
    /\ \/ /\ \E h \in InputHeaders :
               /\ header' = h
               /\ inputHeader' = h
          /\ fileIdx' = 1
          /\ openedOrder' = Append(openedOrder, 1)
          /\ openReaders' = openReaders + 1
          /\ readLog' = Append(readLog, <<>>)
          /\ pc' = "s_open_writer"
          /\ UNCHANGED << setupVars, configVars, writerVars, buffer, exhausted,
                          written, wroteToClosed, ioFailed, doneCount, cleanVars >>
       \/ Throw

\* setup_header(header); Writer writer(m_output_file, header, ...)
Single_OpenWriter ==
    /\ pc = "s_open_writer"
    /\ \/ /\ header' = setup_header(header)
          /\ writerHeader' = header'
          /\ writerOpen' = TRUE
          /\ writerOpens' = writerOpens + 1
          /\ readersAtOpen' = Len(openedOrder)
          /\ pc' = "copy_read"
          /\ UNCHANGED << setupVars, configVars, readerVars, writerCloses,
                          inputHeader, dataVars, ioFailed, doneCount, cleanVars >>
       \/ Throw

\* file_size = writer.close();
Single_CloseWriter ==
    /\ pc = "s_close_writer"
    /\ \/ /\ writerOpen' = FALSE
          /\ writerCloses' = writerCloses + 1
          /\ pc' = "s_close_reader"
          /\ UNCHANGED << setupVars, configVars, readerVars, writerOpens,
                          readersAtOpen, writerHeader, headerVars, dataVars,
                          ioFailed, doneCount, cleanVars >>
       \/ Throw

\* reader.close();
Single_CloseReader ==
    /\ pc = "s_close_reader"
    /\ \/ /\ openReaders' = openReaders - 1
          /\ pc' = "finish"
          /\ UNCHANGED << setupVars, configVars, fileIdx, openedOrder, writerVars,
                          headerVars, dataVars, ioFailed, doneCount, cleanVars >>
       \/ Throw

\* Several input files: Header header; setup_header(header); Writer writer{...}
Multi_OpenWriter ==
    /\ pc = "m_open_writer"
    /\ \/ /\ header' = setup_header(DefaultHeader)
          /\ writerHeader' = header'
          /\ writerOpen' = TRUE
          /\ writerOpens' = writerOpens + 1
          /\ readersAtOpen' = Len(openedOrder)
          /\ pc' = "m_next_file"
          /\ UNCHANGED << setupVars, configVars, readerVars, writerCloses,
                          inputHeader, dataVars, ioFailed, doneCount, cleanVars >>
       \/ Throw

Multi_OpenReader_Reversed ==
    /\ pc = "m_next_file"
    /\ fileIdx < numFiles
    /\ \/ /\ fileIdx' = fileIdx + 1
          /\ openedOrder' = Append(openedOrder, numFiles - fileIdx)
          /\ openReaders' = openReaders + 1
          /\ readLog' = Append(readLog, <<>>)
          /\ pc' = "copy_read"
          /\ UNCHANGED << setupVars, configVars, writerVars, headerVars, buffer,
                          exhausted, written, wroteToClosed, ioFailed, doneCount,
                          cleanVars >>
       \/ Throw

\* for (const auto& input_file : m_input_files) { Reader reader{input_file, ...}
Multi_OpenReader ==
    /\ pc = "m_next_file"
    /\ fileIdx < numFiles
    /\ \/ /\ fileIdx' = fileIdx + 1
          /\ openedOrder' = Append(openedOrder, fileIdx + 1)
          /\ openReaders' = openReaders + 1
          /\ readLog' = Append(readLog, <<>>)
          /\ pc' = "copy_read"
          /\ UNCHANGED << setupVars, configVars, writerVars, headerVars, buffer,
                          exhausted, written, wroteToClosed, ioFailed, doneCount,
                          cleanVars >>
       \/ Throw

Multi_CloseReader_LeavesOpen ==
    /\ pc = "m_close_reader"
    /\ \/ /\ pc' = "m_next_file"
          /\ UNCHANGED << setupVars, configVars, readerVars, writerVars,
                          headerVars, dataVars, ioFailed, doneCount, cleanVars >>
       \/ Throw

Multi_CloseReader_ClosesWriter ==
    /\ pc = "m_close_reader"
    /\ \/ /\ openReaders' = openReaders - 1
          /\ writerOpen' = FALSE
          /\ writerCloses' = writerCloses + 1
          /\ pc' = "m_next_file"
          /\ UNCHANGED << setupVars, configVars, fileIdx, openedOrder, writerOpens,
                          readersAtOpen, writerHeader, headerVars, dataVars,
                          ioFailed, doneCount, cleanVars >>
       \/ Throw

\* progress_bar.file_done(...); reader.close(); } : end of one iteration
Multi_CloseReader ==
    /\ pc = "m_close_reader"
    /\ \/ /\ openReaders' = openReaders - 1
          /\ pc' = "m_next_file"
          /\ UNCHANGED << setupVars, configVars, fileIdx, openedOrder, writerVars,
                          headerVars, dataVars, ioFailed, doneCount, cleanVars >>
       \/ Throw

\* After the loop: file_size = writer.close();
Multi_CloseWriter ==
    /\ pc = "m_next_file"
    /\ fileIdx = numFiles
    /\ \/ /\ writerOpen' = FALSE
          /\ writerCloses' = writerCloses + 1
          /\ pc' = "finish"
          /\ UNCHANGED << setupVars, configVars, readerVars, writerOpens,
                          readersAtOpen, writerHeader, headerVars, dataVars,
                          ioFailed, doneCount, cleanVars >>
       \/ Throw

\* m_vout << "Done.\n"; return true;
Run_Finish ==
    /\ pc = "finish"
    /\ doneCount' = doneCount + 1
    /\ pc' = "done"
    /\ UNCHANGED << setupVars, configVars, readerVars, writerVars, headerVars,
                    dataVars, ioFailed, cleanVars >>

\* ------------------------------------------------------------------ copy
\* while (osmium::memory::Buffer buffer = reader.read()) : the reader returns
\* a chunk, or the invalid buffer at the end of its input, or throws.
Copy_Read ==
    /\ pc = "copy_read"
    /\ \/ /\ ObjectsRead < MaxObjects
          /\ \E chunk \in ChunksUpTo(MaxObjects - ObjectsRead) :
               /\ buffer' = chunk
               /\ readLog' = [readLog EXCEPT ![Len(readLog)] = Append(@, chunk)]
          /\ pc' = "copy_clean"
          /\ UNCHANGED << setupVars, configVars, readerVars, writerVars,
                          headerVars, exhausted, written, wroteToClosed, ioFailed,
                          doneCount, cleanVars >>
       \/ /\ exhausted' = exhausted \cup {fileIdx}
          /\ pc' = IF numFiles = 1 THEN "s_close_writer" ELSE "m_close_reader"
          /\ UNCHANGED << setupVars, configVars, readerVars, writerVars,
                          headerVars, buffer, readLog, written, wroteToClosed,
                          ioFailed, doneCount, cleanVars >>
       \/ Throw

\* The clean step on the buffer just read.
Copy_Clean ==
    /\ pc = "copy_clean"
    /\ buffer' = CleanBuffer(m_clean_attrs, buffer)
    /\ pc' = "copy_write"
    /\ UNCHANGED << setupVars, configVars, readerVars, writerVars, headerVars,
                    readLog, exhausted, written, wroteToClosed, ioFailed,
                    doneCount, cleanVars >>

Copy_Write_Twice ==
    /\ pc = "copy_write"
    /\ \/ /\ written' = written \o << buffer, buffer >>
          /\ wroteToClosed' = (wroteToClosed \/ ~writerOpen)
          /\ buffer' = <<>>
          /\ pc' = "copy_read"
          /\ UNCHANGED << setupVars, configVars, readerVars, writerVars,
                          headerVars, readLog, exhausted, ioFailed, doneCount,
                          cleanVars >>
       \/ Throw

\* writer(std::move(buffer));
Copy_Write ==
    /\ pc = "copy_write"
    /\ \/ /\ written' = Append(written, buffer)
          /\ wroteToClosed' = (wroteToClosed \/ ~writerOpen)
          /\ buffer' = <<>>
          /\ pc' = "copy_read"
          /\ UNCHANGED << setupVars, configVars, readerVars, writerVars,
                          headerVars, readLog, exhausted, ioFailed, doneCount,
                          cleanVars >>
       \/ Throw

Next ==
    \/ Setup_CleanArg
    \/ Setup_Return
    \/ Run_Begin
    \/ Single_OpenReader
    \/ Single_OpenWriter
    \/ Single_CloseWriter
    \/ Single_CloseReader
    \/ Multi_OpenWriter
    \/ Multi_OpenReader
    \/ Multi_CloseReader
    \/ Multi_CloseWriter
    \/ Copy_Read
    \/ Copy_Clean
    \/ Copy_Write
    \/ Run_Finish

Spec == Init /\ [][Next]_vars

\* ------------------------------------------------- the clean step alone
\* A chunk of one entity and a Clean Attribute Set, before the clean step.
InitClean ==
    /\ pc = "clean_pass"
    /\ m_clean_attrs \in SUBSET CleanFlags
    /\ argsLeft = 0
    /\ unknownSeen = FALSE
    /\ numFiles = 1
    /\ fileIdx = 1
    /\ openedOrder = << 1 >>
    /\ openReaders = 1
    /\ writerOpen = TRUE
    /\ writerOpens = 1
    /\ writerCloses = 0
    /\ readersAtOpen = 1
    /\ \E h \in InputHeaders :
         /\ inputHeader = h
         /\ header = setup_header(h)
         /\ writerHeader = setup_header(h)
    /\ \E e \in AllEntities :
         /\ buffer = << e >>
         /\ readLog = << << << e >> >> >>
    /\ exhausted = {}
    /\ written = <<>>
    /\ wroteToClosed = FALSE
    /\ ioFailed = FALSE
    /\ doneCount = 0
    /\ once = <<>>
    /\ passes = 0

\* The clean step of copy() applied to the buffer, once more.
ApplyClean ==
    /\ pc = "clean_pass"
    /\ passes < MaxPasses
    /\ buffer' = CleanBuffer(m_clean_attrs, buffer)
    /\ once' = IF passes = 0 THEN buffer' ELSE once
    /\ passes' = passes + 1
    /\ UNCHANGED << pc, setupVars, configVars, readerVars, writerVars, headerVars,
                    readLog, exhausted, written, wroteToClosed, ioFailed,
                    doneCount >>

NextClean == ApplyClean

SpecClean == InitClean /\ [][NextClean]_vars

\* =============================================================== claims
\* The chunks read() has returned so far, over all readers, in order.
ReadChunks == ConcatAll(readLog)

CopyStates == {"copy_read", "copy_clean", "copy_write"}

\* The cleared value of each attribute, as the specification lists them.
ClearedValue(a) ==
    CASE a = "version" -> 0
      [] a = "changeset" -> 0
      [] a = "timestamp" -> 0
      [] a = "uid" -> 0
      [] a = "user" -> ""

\* The entity with each of its attributes in S cleared, whatever its kind.
ClearedIn(e, S) ==
    [f \in DOMAIN e |-> IF f \in S THEN ClearedValue(f) ELSE e[f]]

\* The same for nodes, ways and relations; a changeset as it is.
ClearedOSMObject(e, S) ==
    IF e.type \in {"node", "way", "relation"} THEN ClearedIn(e, S) ELSE e

C2_ForwardedOnceInOrder ==
    /\ ~ioFailed =>
         /\ Len(ReadChunks) = Len(written) + (IF buffer = <<>> THEN 0 ELSE 1)
         /\ \A i \in 1..Len(written) : Ids(written[i]) = Ids(ReadChunks[i])
         /\ buffer # <<>> => Ids(buffer) = Ids(ReadChunks[Len(ReadChunks)])
    /\ ioFailed =>
         /\ Len(written) <= Len(ReadChunks)
         /\ \A i \in 1..Len(written) : Ids(written[i]) = Ids(ReadChunks[i])
    /\ pc \in CopyStates => fileIdx \notin exhausted

C2_Witness ==
    /\ pc \in {"s_close_writer", "m_close_reader"}
    /\ Len(written) = 2
    /\ Ids(written[1]) # Ids(written[2])

\* C3: a run without cleaning that has completed has opened the inputs in
\* command-line order, and the objects the writer received are the objects
\* of the inputs, input after input, each in its own order; their number is
\* the sum of the inputs' object counts.
C3_Concatenation ==
    (pc = "done" /\ m_clean_attrs = {}) =>
        /\ openedOrder = [i \in 1..numFiles |-> i]
        /\ Len(readLog) = numFiles
        /\ ConcatAll(written) = ConcatAll(ConcatAll(readLog))
        /\ Len(ConcatAll(written)) = ObjectsRead

C3_Witness ==
    /\ pc = "done"
    /\ m_clean_attrs = {}
    /\ numFiles = 2
    /\ Len(readLog) = 2
    /\ readLog[1] # <<>>
    /\ readLog[2] # <<>>
    /\ readLog[1] # readLog[2]

\* C4: once the loop of setup() has met a value that is none of the five
\* names, setup() has failed: no reader and no writer was ever opened,
\* nothing was written and run() has not started.
C4_UnknownCleanValueRejected ==
    /\ unknownSeen =>
         /\ pc = "setup_failed"
         /\ openedOrder = <<>>
         /\ openReaders = 0
         /\ writerOpens = 0
         /\ ~writerOpen
         /\ written = <<>>
         /\ doneCount = 0
    /\ pc = "setup_failed" => unknownSeen

\* The unknown value came after two known ones and before another value.
C4_Witness ==
    /\ pc = "setup_failed"
    /\ Cardinality(m_clean_attrs) = 2
    /\ argsLeft >= 2

C6_WriterOpenedAndClosedOnce ==
    /\ writerOpens <= 1
    /\ writerCloses <= 1
    /\ ~wroteToClosed
    /\ pc \in CopyStates => writerOpen
    /\ (writerCloses = 1 /\ ~ioFailed) =>
         /\ exhausted = 1..numFiles
         /\ buffer = <<>>
         /\ Len(written) = Len(ReadChunks)
    /\ pc = "done" =>
         /\ writerOpens = 1
         /\ writerCloses = 1
         /\ ~writerOpen

C6_Witness ==
    /\ pc = "done"
    /\ numFiles = 2
    /\ writerCloses = 1
    /\ Len(readLog) = 2
    /\ readLog[2] # <<>>
    /\ Len(written) = 2

\* C7: "Done." is emitted at most once, and only in a run where nothing
\* threw, every input is exhausted and the writer is closed; once a call has
\* thrown the run is over and "Done." is not emitted; no input is opened twice.
C7_DoneOnceAndOnlyOnSuccess ==
    /\ doneCount <= 1
    /\ doneCount = 1 =>
         /\ pc = "done"
         /\ ~ioFailed
         /\ exhausted = 1..numFiles
         /\ writerCloses = 1
         /\ ~writerOpen
    /\ pc = "done" => doneCount = 1
    /\ ioFailed => (pc = "failed" /\ doneCount = 0)
    /\ Len(openedOrder) <= numFiles

\* A write failed after one chunk had gone through.
C7_Witness ==
    /\ pc = "failed"
    /\ ioFailed
    /\ Len(written) = 1
    /\ Len(ReadChunks) = 2
    /\ doneCount = 0

\* C8: with one input file the writer is opened after the reader, with the
\* header read from the reader as setup_header() completes it; otherwise it
\* is opened before any reader, with a default header so completed.
C8_WriterHeader ==
    writerOpens >= 1 =>
        IF numFiles = 1
        THEN /\ readersAtOpen = 1
             /\ inputHeader \in InputHeaders
             /\ writerHeader = setup_header(inputHeader)
             /\ writerHeader.meta = inputHeader.meta
        ELSE /\ readersAtOpen = 0
             /\ writerHeader = setup_header(DefaultHeader)
             /\ writerHeader.meta = DefaultHeader.meta

C8_Witness ==
    /\ numFiles = 1
    /\ writerOpens = 1
    /\ writerHeader.meta = "B"

\* C9 as stated: at most one reader is open at any time and, once the
\* writer has been closed, no reader is open.
C9_AsStated ==
    /\ openReaders <= 1
    /\ writerCloses > 0 => openReaders = 0

\* C9 amended: at most one reader is open at any time.  With several input
\* files no reader is open when the next one is opened or when the writer is
\* closed, and a reader whose input is exhausted is closed next.  With one
\* input file the writer is closed first and the reader right after it: the
\* reader is open after the writer's close only until its own close.
C9_ReaderClosedAfterItsInput ==
    /\ openReaders <= 1
    /\ numFiles # 1 =>
         /\ writerCloses > 0 => openReaders = 0
         /\ pc = "m_next_file" => openReaders = 0
         /\ pc = "m_close_reader" => (openReaders = 1 /\ fileIdx \in exhausted)
    /\ numFiles = 1 =>
         /\ (writerCloses > 0 /\ openReaders > 0) => pc = "s_close_reader"
         /\ pc \in {"finish", "done"} => openReaders = 0

C9_Witness ==
    /\ numFiles = 1
    /\ pc = "s_close_reader"
    /\ writerCloses = 1
    /\ openReaders = 1
    /\ written # <<>>

\* C10: a second pass of the clean step with the same Clean Attribute Set
\* leaves the chunk as the first pass left it.
C10_CleanIdempotent ==
    passes >= 2 => buffer = once

C10_Witness ==
    /\ passes = 2
    /\ m_clean_attrs = CleanFlags
    /\ once # ReadChunks[1]
    /\ once[1].type = "way"

====
